---------------------------- MODULE Spec2Model ----------------------------
(***************************************************************************)
(* Model of appcensus-monkey: the bounded-timeout adb executor and its     *)
(* retry wrapper (sdk.py), the package reset (adb_uninstall_all), the      *)
(* screenshot archiver (_compress_pngs) and the test run of monkey() with  *)
(* its queue driver _db_run (monkey.py).                                   *)
(*                                                                         *)
(* Several specifications share the module.  Each one drives its own group *)
(* of variables and leaves the other groups at their idle values:          *)
(*   Spec          adb_shell over adb_call_timeout over adb_call           *)
(*   UninstallSpec adb_uninstall_all                                       *)
(*   CompressSpec  _compress_pngs                                          *)
(*   RunSpec       __main__, _db_run and monkey(); FairRunSpec adds the    *)
(*                 fairness of the single driving thread                   *)
(*   ChargeSpec    _check_charge over adb_battery_level                    *)
(*   WaitBootSpec  adb_wait_boot; FairWaitBootSpec adds the fairness of    *)
(*                 its polling loop                                        *)
(*   SetupSpec     the SETUP statements of monkey(), from parse_config to  *)
(*                 the entry of the try statement                          *)
(*   ScreenSpec    adb_screen_turn_on and adb_screen_turn_off              *)
(*   FuzzSpec      the INITIAL_CAPTURE and FUZZ loops of monkey() with     *)
(*                 adb_lumen_check, adb_monkey and adb_screenshot          *)
(***************************************************************************)
EXTENDS Integers, Sequences, FiniteSets, TLC

(***************************************************************************)
(* Bounds of the model.                                                    *)
(***************************************************************************)
MaxRetry == 2
MaxTimeout == 3
MaxLines == 3
MaxPngs == 3
MaxStartShots == 2
MaxFuzzIter == 2
MaxPolls == 2
MaxBootClock == 8
BootTimeout == 2

(***************************************************************************)
(* Program constants.                                                      *)
(***************************************************************************)
PollSecs == 2
charge_to == 90

\* Python's None, and the text the adb command of attempt i prints
None == 0
Output(i) == i

VARIABLES
    \* ---- adb_shell / adb_call_timeout / adb_call (sdk.py) ----
    spc,          \* position of the driving thread inside adb_shell
    budget,       \* the retry_limit argument adb_shell was called with
    retry_limit,  \* adb_shell's local retry_limit
    timeout_secs, \* the timeout_secs argument
    inRetry,      \* the running attempt was started by the while loop (line 122)
    attempt,      \* number of adb_call_timeout calls started so far
    now,          \* wall clock, seconds
    end_time,     \* adb_call_timeout's end_time
    wake,         \* the time the running time.sleep(2) ends
    success,      \* adb_call_timeout's success flag
    worker,       \* the multiprocessing.Process of the running attempt
    workerDoneAt, \* the time that process exited by itself, -1 if it has not
    adbProc,      \* per attempt: the adb process check_output started
    ret,          \* the multiprocessing.Queue of the running attempt
    attempts,     \* history: one record per adb_call_timeout call that returned
    shellResult,  \* what adb_shell returned
    \* ---- adb_uninstall_all (sdk.py) ----
    upc, listing, to_uninstall, issued,
    \* ---- _compress_pngs (monkey.py) ----
    cpc, dirFiles, png_files, delete_pngs, tar, tarState, toDelete, dir0,
    \* ---- __main__, _db_run, monkey (monkey.py) ----
    rpc,          \* position of the driving thread in monkey.py
    mode,         \* "single" (--apk given) or "queue"
    skip_install, \* monkey()'s skip_install argument
    apkIsFile,    \* os.path.isfile(apk) in _db_run
    device,       \* "up", or "lost" once the device is unreachable
    lostInFuzz,   \* the device was lost while monkey() was in its FUZZ loop
    exc,          \* the exception that is propagating, "none" if none is
    raisedIn,     \* the phase in which that exception was raised
    phase,        \* the phase monkey() is in
    logLines,     \* the result and dump lines written to the run log
    logOpen,      \* the log file f is open
    stdoutToFile, \* sys.stdout is f
    statusLog,    \* the statuses passed to dbops.update_app_run_status
    startShots,   \* screen_count of the INITIAL_CAPTURE loop
    fuzzShots,    \* screen_count of the FUZZ loop
    compressed,   \* _compress_pngs was called and returned
    dumped,       \* what adb_show_logs printed: "no", "logs" or "None"
    monkeyExit,   \* how monkey() ended: "none", "returned" or "raised"
    flaw,         \* the fatal precondition the command line fails, or "none"
    fatal,        \* the precondition whose check has failed, "none" if none has
    trail,        \* the steps of PRECHECK and the phases entered, in order
    \* ---- _check_charge (monkey.py), adb_battery_level (sdk.py) ----
    kpc,          \* position of the driving thread inside _check_charge
    mincharge,    \* the mincharge argument
    charge,       \* _check_charge's local charge
    chargeLog,    \* the battery readings and screen commands, in order
    kexc,         \* the exception that left _check_charge, "none" if none did
    \* ---- adb_wait_boot (sdk.py) ----
    bpc,          \* position of the driving thread inside adb_wait_boot
    devState,     \* what the device and the adb host currently answer
    bnow,         \* wall clock, seconds
    bend,         \* adb_wait_boot's end_time
    lastRound,    \* what the latest evaluation of the loop condition probed
    reissues,     \* one record per reboot command re-issued by the loop
    bexc,         \* the exception that left adb_wait_boot, "none" if none did
    \* ---- SETUP of monkey() (monkey.py 46-86) ----
    tpc,          \* position of the driving thread in lines 46-91
    tskip,        \* monkey()'s skip_install argument
    devPkgs,      \* the packages installed on the device
    dirState,     \* the run directory: "absent", "foreign" or "own"
    created,      \* how many times this run created the run directory
    artifacts,    \* the files this run wrote into the run directory
    setupCmds,    \* the device commands of SETUP issued so far
    texc,         \* the exception that left monkey(), and the line raising it
    \* ---- adb_screen_turn_on / adb_screen_turn_off (sdk.py 395-405) ----
    npc,          \* position of the driving thread inside the running call
    display,      \* the display of the device: "ON" or "OFF"
    want,         \* the function called: "on" or "off"
    before,       \* the display when the running call began
    probed,       \* what adb_is_screen_on returned to the running call
    sent,         \* the key command the running call sent, "no" if none
    calls,        \* one record per call that returned, in order
    nexc,         \* the exception that left the running call
    \* ---- the loops of monkey() (monkey.py 93-109), adb_screenshot,
    \* ---- adb_monkey (sdk.py 407-414, 430-449) ----
    fpc,          \* position of the driving thread in lines 93-109
    floop,        \* the loop it is in: "start" (96-99) or "run" (104-109)
    fnow,         \* wall clock
    fend,         \* monkey()'s end_time
    deadlines,    \* one record per assignment of end_time
    screen_count, \* monkey()'s screen_count
    shots,        \* the screenshot files named so far, in order
    iterAt,       \* the time the running iteration's condition was tested
    iterLog,      \* what the running iteration has called or issued so far
    fexc          \* the exception raised inside the try statement

execVars == <<spc, budget, retry_limit, timeout_secs, inRetry, attempt, now,
              end_time, wake, success, worker, workerDoneAt, adbProc, ret,
              attempts, shellResult>>
uninstVars == <<upc, listing, to_uninstall, issued>>
compVars == <<cpc, dirFiles, png_files, delete_pngs, tar, tarState, toDelete, dir0>>
runVars == <<rpc, mode, skip_install, apkIsFile, device, lostInFuzz, exc,
             raisedIn, phase, logLines, logOpen, stdoutToFile, statusLog,
             startShots, fuzzShots, compressed, dumped, monkeyExit, flaw,
             fatal, trail>>
chargeVars == <<kpc, mincharge, charge, chargeLog, kexc>>
bootVars == <<bpc, devState, bnow, bend, lastRound, reissues, bexc>>
setupVars == <<tpc, tskip, devPkgs, dirState, created, artifacts, setupCmds,
               texc>>
screenVars == <<npc, display, want, before, probed, sent, calls, nexc>>
fuzzVars == <<fpc, floop, fnow, fend, deadlines, screen_count, shots, iterAt,
              iterLog, fexc>>
vars == <<execVars, uninstVars, compVars, runVars, chargeVars, bootVars,
          setupVars, screenVars, fuzzVars>>
notExec == <<uninstVars, compVars, runVars, chargeVars, bootVars, setupVars,
             screenVars, fuzzVars>>
notUninst == <<execVars, compVars, runVars, chargeVars, bootVars, setupVars,
               screenVars, fuzzVars>>
notComp == <<execVars, uninstVars, runVars, chargeVars, bootVars, setupVars,
             screenVars, fuzzVars>>
notRun == <<execVars, uninstVars, compVars, chargeVars, bootVars, setupVars,
            screenVars, fuzzVars>>
notCharge == <<execVars, uninstVars, compVars, runVars, bootVars, setupVars,
               screenVars, fuzzVars>>
notBoot == <<execVars, uninstVars, compVars, runVars, chargeVars, setupVars,
             screenVars, fuzzVars>>
notSetup == <<execVars, uninstVars, compVars, runVars, chargeVars, bootVars,
              screenVars, fuzzVars>>
notScreen == <<execVars, uninstVars, compVars, runVars, chargeVars, bootVars,
               setupVars, fuzzVars>>
notFuzz == <<execVars, uninstVars, compVars, runVars, chargeVars, bootVars,
             setupVars, screenVars>>

MaxAttempts == MaxRetry + 1
Attempts == 1..MaxAttempts

(***************************************************************************)
(* Idle values of each group.                                              *)
(***************************************************************************)
ExecIdle ==
    /\ spc = "idle" /\ budget = 0 /\ retry_limit = 0 /\ timeout_secs = 0
    /\ inRetry = FALSE /\ attempt = 0 /\ now = 0 /\ end_time = 0 /\ wake = 0
    /\ success = TRUE /\ worker = "none" /\ workerDoneAt = -1
    /\ adbProc = [i \in Attempts |-> [st |-> "none", out |-> None]]
    /\ ret = <<>> /\ attempts = <<>> /\ shellResult = <<>>

UninstIdle ==
    /\ upc = "idle"
    /\ listing = [success |-> FALSE, isNone |-> TRUE, output |-> <<>>]
    /\ to_uninstall = {} /\ issued = <<>>

CompIdle ==
    /\ cpc = "idle" /\ dirFiles = {} /\ png_files = {} /\ delete_pngs = FALSE
    /\ tar = {} /\ tarState = "none" /\ toDelete = {} /\ dir0 = {}

RunIdle ==
    /\ rpc = "idle" /\ mode = "single" /\ skip_install = FALSE
    /\ apkIsFile = TRUE /\ device = "up" /\ lostInFuzz = FALSE
    /\ exc = "none" /\ raisedIn = "none" /\ phase = "INIT"
    /\ logLines = <<>> /\ logOpen = FALSE /\ stdoutToFile = FALSE
    /\ statusLog = <<>> /\ startShots = 0 /\ fuzzShots = 0
    /\ compressed = FALSE /\ dumped = "no" /\ monkeyExit = "none"
    /\ flaw = "none" /\ fatal = "none" /\ trail = <<>>

ChargeIdle ==
    /\ kpc = "idle" /\ mincharge = 0 /\ charge = 0 /\ chargeLog = <<>>
    /\ kexc = "none"

BootIdle ==
    /\ bpc = "idle" /\ devState = "ready" /\ bnow = 0 /\ bend = 0
    /\ lastRound = [connected |-> FALSE, booted |-> FALSE]
    /\ reissues = <<>> /\ bexc = "none"

NoExc == [type |-> "none", line |-> 0]

SetupIdle ==
    /\ tpc = "idle" /\ tskip = FALSE /\ devPkgs = {} /\ dirState = "absent"
    /\ created = 0 /\ artifacts = {} /\ setupCmds = {} /\ texc = NoExc

ScreenIdle ==
    /\ npc = "idle" /\ display = "OFF" /\ want = "on" /\ before = "OFF"
    /\ probed = FALSE /\ sent = "no" /\ calls = <<>> /\ nexc = "none"

FuzzIdle ==
    /\ fpc = "idle" /\ floop = "start" /\ fnow = 0 /\ fend = 0
    /\ deadlines = <<>> /\ screen_count = 0 /\ shots = <<>> /\ iterAt = 0
    /\ iterLog = <<>> /\ fexc = "none"

(***************************************************************************)
(* adb_call (sdk.py 70-87), run in the worker process.                     *)
(***************************************************************************)
WorkerAlive == worker \in {"starting", "waiting"}

\* subprocess.check_output starts the adb process (line 79)
adb_call_spawn ==
    /\ worker = "starting"
    /\ adbProc' = [adbProc EXCEPT ![attempt] = [st |-> "running", out |-> None]]
    /\ worker' = "waiting"
    /\ UNCHANGED <<spc, budget, retry_limit, timeout_secs, inRetry, attempt,
                   now, end_time, wake, success, workerDoneAt, ret, attempts,
                   shellResult,
                   notExec>>

\* the adb process of attempt i exits: normally with its output, or nonzero
adb_exit(i) ==
    /\ adbProc[i].st = "running"
    /\ \/ adbProc' = [adbProc EXCEPT ![i] = [st |-> "ok", out |-> Output(i)]]
       \/ adbProc' = [adbProc EXCEPT ![i] = [st |-> "err", out |-> None]]
    /\ UNCHANGED <<spc, budget, retry_limit, timeout_secs, inRetry, attempt,
                   now, end_time, wake, success, worker, workerDoneAt, ret,
                   attempts, shellResult,
                   notExec>>

\* lines 78-82: the decoded output, or None when check_output raised
CallResult(p) == IF p.st = "ok" THEN p.out ELSE None

\* lines 84-87: the result is put on the queue and the worker exits
adb_call_return ==
    /\ worker = "waiting"
    /\ adbProc[attempt].st \in {"ok", "err"}
    /\ ret' = Append(ret, CallResult(adbProc[attempt]))
    /\ worker' = "exited"
    /\ workerDoneAt' = now
    /\ UNCHANGED <<spc, budget, retry_limit, timeout_secs, inRetry, attempt,
                   now, end_time, wake, success, adbProc, attempts, shellResult,
                   notExec>>

(***************************************************************************)
(* adb_call_timeout (sdk.py 89-116).  quit_on_fail is False at every call  *)
(* site of the repository, so lines 109-111 never run.                     *)
(***************************************************************************)
\* lines 90-96
adb_call_timeout_start ==
    /\ spc = "start"
    /\ attempt < MaxAttempts
    /\ attempt' = attempt + 1
    /\ ret' = <<>>
    /\ worker' = "starting"
    /\ workerDoneAt' = -1
    /\ end_time' = now + timeout_secs
    /\ success' = TRUE
    /\ spc' = "loop"
    /\ UNCHANGED <<budget, retry_limit, timeout_secs, inRetry, now, wake,
                   adbProc, attempts, shellResult,
                   notExec>>

\* line 97 true, line 98 entered
adb_call_timeout_alive ==
    /\ spc = "loop"
    /\ WorkerAlive
    /\ wake' = now + PollSecs
    /\ spc' = "sleep"
    /\ UNCHANGED <<budget, retry_limit, timeout_secs, inRetry, attempt, now,
                   end_time, success, worker, workerDoneAt, adbProc, ret,
                   attempts, shellResult,
                   notExec>>

\* line 97 false
adb_call_timeout_dead ==
    /\ spc = "loop"
    /\ ~WorkerAlive
    /\ spc' = "after"
    /\ UNCHANGED <<budget, retry_limit, timeout_secs, inRetry, attempt, now,
                   end_time, wake, success, worker, workerDoneAt, adbProc, ret,
                   attempts, shellResult,
                   notExec>>

\* time passes while the driving thread sleeps (line 98)
Tick ==
    /\ spc = "sleep"
    /\ now < wake
    /\ now' = now + 1
    /\ UNCHANGED <<spc, budget, retry_limit, timeout_secs, inRetry, attempt,
                   end_time, wake, success, worker, workerDoneAt, adbProc, ret,
                   attempts, shellResult,
                   notExec>>

\* line 99
DeadlinePassed == now > end_time

\* lines 99-105: after the sleep; terminate() signals the worker process only
adb_call_timeout_wake ==
    /\ spc = "sleep"
    /\ now >= wake
    /\ IF DeadlinePassed
         THEN /\ worker' = IF WorkerAlive THEN "terminated" ELSE worker
              /\ success' = FALSE
         ELSE UNCHANGED <<worker, success>>
    /\ spc' = "loop"
    /\ UNCHANGED <<budget, retry_limit, timeout_secs, inRetry, attempt, now,
                   end_time, wake, workerDoneAt, adbProc, ret, attempts,
                   shellResult,
                   notExec>>

\* lines 113-116
TimeoutResult == IF success /\ Len(ret) > 0 THEN <<TRUE, Head(ret)>>
                 ELSE <<FALSE, None>>

\* lines 107-116, and line 123 when the call was made by the retry loop
adb_call_timeout_return ==
    /\ spc = "after"
    /\ attempts' = Append(attempts,
          [success |-> TimeoutResult[1], output |-> TimeoutResult[2],
           adb |-> adbProc[attempt], worker |-> worker,
           doneAt |-> workerDoneAt, deadline |-> end_time])
    /\ retry_limit' = IF inRetry THEN retry_limit - 1 ELSE retry_limit
    /\ spc' = "shell"
    /\ UNCHANGED <<budget, timeout_secs, inRetry, attempt, now, end_time, wake,
                   success, worker, workerDoneAt, adbProc, ret, shellResult,
                   notExec>>

(***************************************************************************)
(* adb_shell (sdk.py 118-125).                                             *)
(***************************************************************************)
\* the call: adb_shell(..., timeout_secs=T, retry_limit=R), line 119
adb_shell_call ==
    /\ spc = "idle"
    /\ \E R \in 0..MaxRetry, T \in 1..MaxTimeout :
          /\ budget' = R
          /\ retry_limit' = R
          /\ timeout_secs' = T
    /\ inRetry' = FALSE
    /\ spc' = "start"
    /\ UNCHANGED <<attempt, now, end_time, wake, success, worker, workerDoneAt,
                   adbProc, ret, attempts, shellResult,
                   notExec>>

MutRetryGuard == ~attempts[Len(attempts)].success /\ retry_limit >= 0

\* line 121
RetryGuard == ~attempts[Len(attempts)].success /\ retry_limit > 0

\* line 121 true: line 122
adb_shell_retry ==
    /\ spc = "shell"
    /\ RetryGuard
    /\ inRetry' = TRUE
    /\ spc' = "start"
    /\ UNCHANGED <<budget, retry_limit, timeout_secs, attempt, now, end_time,
                   wake, success, worker, workerDoneAt, adbProc, ret, attempts,
                   shellResult,
                   notExec>>

\* line 121 false: line 125
adb_shell_return ==
    /\ spc = "shell"
    /\ ~RetryGuard
    /\ shellResult' = <<attempts[Len(attempts)].success,
                        attempts[Len(attempts)].output>>
    /\ spc' = "done"
    /\ UNCHANGED <<budget, retry_limit, timeout_secs, inRetry, attempt, now,
                   end_time, wake, success, worker, workerDoneAt, adbProc, ret,
                   attempts,
                   notExec>>

Init ==
    /\ ExecIdle /\ UninstIdle /\ CompIdle /\ RunIdle /\ ChargeIdle /\ BootIdle
    /\ SetupIdle /\ ScreenIdle /\ FuzzIdle

Next ==
    \/ adb_shell_call
    \/ adb_call_timeout_start
    \/ adb_call_timeout_alive
    \/ adb_call_timeout_dead
    \/ Tick
    \/ adb_call_timeout_wake
    \/ adb_call_timeout_return
    \/ adb_shell_retry
    \/ adb_shell_return
    \/ adb_call_spawn
    \/ \E i \in Attempts : adb_exit(i)
    \/ adb_call_return

Spec == Init /\ [][Next]_vars

(***************************************************************************)
(* Claims about the executor and the retry wrapper, checked under Spec.    *)
(***************************************************************************)
Returned == 1..Len(attempts)

\* the adb command of returned attempt i had not exited when the call returned
Hung(i) == attempts[i].adb.st = "running"

\* the worker of returned attempt i exited by itself before the deadline
DoneBeforeDeadline(i) ==
    /\ attempts[i].doneAt >= 0
    /\ attempts[i].doneAt < attempts[i].deadline

\* C1: a call whose adb command never returned within the timeout returns
\* (False, None), and after it returned neither its worker process nor the
\* adb process that worker started is still running.
C1_TimeoutLeavesNoOrphan ==
    \A i \in Returned :
        Hung(i) =>
            /\ attempts[i].success = FALSE
            /\ attempts[i].output = None
            /\ attempts[i].worker \notin {"starting", "waiting"}
            /\ adbProc[i].st # "running"

\* C2: adb_shell with retry budget R makes at most R+1 attempts, makes none
\* after an attempt that succeeded, and returns the outcome of the last
\* attempt it made.
C2_RetryBudget ==
    /\ attempt <= budget + 1
    /\ \A i \in Returned : i < attempt => ~attempts[i].success
    /\ spc = "done" =>
          /\ Len(attempts) = attempt
          /\ shellResult = <<attempts[attempt].success, attempts[attempt].output>>
          /\ shellResult[1] = FALSE => attempt = budget + 1

C2_Witness ==
    /\ spc = "done"
    /\ budget = 2
    /\ attempt = 3
    /\ shellResult[1] = TRUE
    /\ shellResult[2] = Output(3)

\* C3: an attempt whose adb command exited with a nonzero code is reported as
\* a failure, and while retry budget remains it is followed by another
\* attempt, as a timed-out attempt is.
C3_ErrorIsRetried ==
    \A i \in Returned :
        (attempts[i].adb.st = "err" /\ attempts[i].worker = "exited") =>
            /\ attempts[i].success = FALSE
            /\ (spc = "done" /\ i <= budget) => Len(attempts) > i

\* C4: a command that completed normally before the deadline is reported OK
\* with its captured output, and a call reports TIMEOUT only if its child
\* was still running at the deadline.
C4_CompletedBeforeDeadlineIsOK ==
    \A i \in Returned :
        /\ (attempts[i].adb.st = "ok" /\ DoneBeforeDeadline(i)) =>
              /\ attempts[i].success = TRUE
              /\ attempts[i].output = attempts[i].adb.out
        /\ attempts[i].success = FALSE => ~DoneBeforeDeadline(i)

\* the attempts whose adb command is executing
RunningCommands == {i \in Attempts : adbProc[i].st = "running"}

\* C16: at most one adb command is executing at any time, a command whose
\* call already returned TIMEOUT included, and a worker process is alive
\* only for the attempt that has not returned yet.
C16_OneCommandInFlight ==
    /\ Cardinality(RunningCommands) <= 1
    /\ WorkerAlive => Len(attempts) < attempt

(***************************************************************************)
(* adb_uninstall_all (sdk.py 282-292) and the allow list dont_uninstall    *)
(* (sdk.py 184-280).  A package id is a string; a line of the output of    *)
(* `pm list packages` is a sequence of tokens: <<"package:", id>>, or <<>> *)
(* for the empty string that split('\n') yields after the last newline.    *)
(***************************************************************************)
\* ids the device can report: two of the allow list, two that are not on it
Pkgs == {"android", "edu.berkeley.icsi.haystack", "com.example.app",
         "com.example.game"}

\* sdk.py 184-280, cut down to its members among Pkgs
dont_uninstall == {"android", "edu.berkeley.icsi.haystack"}

PmLines == {<<>>} \cup {<<"package:", p>> : p \in Pkgs}

BoundedSeq(S, n) == UNION {[1..m -> S] : m \in 0..n}

\* the (success, output) pairs adb_shell can return for `pm list packages`
ListOutcomes ==
    {[success |-> TRUE, isNone |-> FALSE, output |-> ls] :
        ls \in BoundedSeq(PmLines, MaxLines)}
    \cup {[success |-> TRUE, isNone |-> TRUE, output |-> <<>>],
          [success |-> FALSE, isNone |-> TRUE, output |-> <<>>]}

\* x.replace('package:', '') (line 287)
StripPrefix(line) == SelectSeq(line, LAMBDA t : t # "package:")

\* line 287: the set of the stripped non-empty lines
Installed(lines) ==
    {StripPrefix(lines[i])[1] : i \in {j \in 1..Len(lines) : Len(lines[j]) > 0}}

MutToUninstall(installed) == installed

\* line 288
ToUninstall(installed) == installed \ dont_uninstall

UninstallInit ==
    /\ ExecIdle /\ CompIdle /\ RunIdle /\ ChargeIdle /\ BootIdle
    /\ SetupIdle /\ ScreenIdle /\ FuzzIdle
    /\ upc = "start"
    /\ listing \in ListOutcomes
    /\ to_uninstall = {}
    /\ issued = <<>>

\* lines 285-288; packages.split raises AttributeError when packages is None
adb_uninstall_all_list ==
    /\ upc = "start"
    /\ IF listing.success
         THEN IF listing.isNone
                THEN /\ upc' = "AttributeError"
                     /\ UNCHANGED to_uninstall
                ELSE /\ to_uninstall' = ToUninstall(Installed(listing.output))
                     /\ upc' = "loop"
         ELSE /\ upc' = "done"
              /\ UNCHANGED to_uninstall
    /\ UNCHANGED <<listing, issued, notUninst>>

\* lines 290-292: one pass of the for loop; the result of the call is dropped
adb_uninstall_all_one ==
    /\ upc = "loop"
    /\ \E package \in to_uninstall :
          /\ issued' = Append(issued, package)
          /\ to_uninstall' = to_uninstall \ {package}
    /\ UNCHANGED <<upc, listing, notUninst>>

\* the for loop is exhausted
adb_uninstall_all_return ==
    /\ upc = "loop"
    /\ to_uninstall = {}
    /\ upc' = "done"
    /\ UNCHANGED <<listing, to_uninstall, issued, notUninst>>

UninstallNext ==
    \/ adb_uninstall_all_list
    \/ adb_uninstall_all_one
    \/ adb_uninstall_all_return

UninstallSpec == UninstallInit /\ [][UninstallNext]_vars

\* how many uninstall commands were issued for package p
Uninstalls(p) == Cardinality({i \in 1..Len(issued) : issued[i] = p})

\* the packages the returned list names
Listed == {p \in Pkgs : \E i \in 1..Len(listing.output) :
                            listing.output[i] = <<"package:", p>>}

\* C9: adb_uninstall_all issues no uninstall for a package of the allow list,
\* whatever list the device returns, and once it has worked through a
\* returned list it has issued exactly one uninstall for every listed
\* package that is not on the allow list.
C9_AllowListKept ==
    /\ \A i \in 1..Len(issued) : issued[i] \notin dont_uninstall
    /\ \A p \in Pkgs : Uninstalls(p) <= 1
    /\ (upc = "done" /\ listing.success /\ ~listing.isNone) =>
          \A p \in Listed \ dont_uninstall : Uninstalls(p) = 1

C9_Witness ==
    /\ upc = "done"
    /\ listing.success /\ ~listing.isNone
    /\ listing.output = << <<"package:", "com.example.app">>,
                           <<"package:", "android">>,
                           <<"package:", "com.example.app">> >>
    /\ issued = <<"com.example.app">>

(***************************************************************************)
(* _compress_pngs (monkey.py 140-152).  A file name is <<stem, extension>>;*)
(* a path is <<directory, name>>.                                          *)
(***************************************************************************)
PngNames == {<<i, "png">> : i \in 1..MaxPngs}
OtherNames == {<<0, "log">>, <<0, "device">>}
png_dir == "data_dir"
outfile == <<0, "tar.bz2">>

\* os.path.join(png_dir, x)
Join(d, x) == <<d, x>>

\* os.path.basename(png) (line 147)
BaseName(path) == path[2]

MutIsPng(x) == TRUE

\* x.endswith('.png') (line 142)
IsPng(x) == x[2] = "png"

CompressInit ==
    /\ ExecIdle /\ UninstIdle /\ RunIdle /\ ChargeIdle /\ BootIdle
    /\ SetupIdle /\ ScreenIdle /\ FuzzIdle
    /\ cpc = "start"
    /\ dirFiles \in SUBSET (PngNames \cup OtherNames)
    /\ dir0 = dirFiles
    /\ delete_pngs \in BOOLEAN
    /\ png_files = {}
    /\ tar = {}
    /\ tarState = "none"
    /\ toDelete = {}

\* line 142, and the test of line 144
compress_list ==
    /\ cpc = "start"
    /\ png_files' = {Join(png_dir, x) : x \in {y \in dirFiles : IsPng(y)}}
    /\ cpc' = IF png_files' # {} THEN "open" ELSE "delete"
    /\ toDelete' = png_files'
    /\ UNCHANGED <<dirFiles, delete_pngs, tar, tarState, dir0, notComp>>

\* line 145: the archive file is created; tarfile.open may raise OSError
compress_open ==
    /\ cpc = "open"
    /\ \/ /\ dirFiles' = dirFiles \cup {outfile}
          /\ tar' = {}
          /\ tarState' = "open"
          /\ cpc' = "add"
       \/ /\ cpc' = "OSError"
          /\ UNCHANGED <<dirFiles, tar, tarState>>
    /\ UNCHANGED <<png_files, delete_pngs, toDelete, dir0, notComp>>

\* lines 146-147: one pass of the for loop; tar.add may raise OSError
compress_add ==
    /\ cpc = "add"
    /\ \E png \in png_files :
          /\ BaseName(png) \notin tar
          /\ \/ /\ tar' = tar \cup {BaseName(png)}
                /\ cpc' = "add"
             \/ /\ cpc' = "OSError"
                /\ UNCHANGED tar
    /\ UNCHANGED <<dirFiles, png_files, delete_pngs, tarState, toDelete, dir0,
                   notComp>>

\* line 148, after the for loop; tar.close may raise OSError
compress_close ==
    /\ cpc = "add"
    /\ \A png \in png_files : BaseName(png) \in tar
    /\ \/ /\ tarState' = "closed"
          /\ cpc' = "delete"
       \/ /\ cpc' = "OSError"
          /\ UNCHANGED tarState
    /\ UNCHANGED <<dirFiles, png_files, delete_pngs, tar, toDelete, dir0,
                   notComp>>

\* lines 150-152: one pass of the for loop
compress_remove ==
    /\ cpc = "delete"
    /\ delete_pngs
    /\ \E png \in toDelete :
          /\ dirFiles' = dirFiles \ {png[2]}
          /\ toDelete' = toDelete \ {png}
    /\ UNCHANGED <<cpc, png_files, delete_pngs, tar, tarState, dir0, notComp>>

\* line 150 false, or the for loop of line 151 exhausted
compress_return ==
    /\ cpc = "delete"
    /\ ~delete_pngs \/ toDelete = {}
    /\ cpc' = "done"
    /\ UNCHANGED <<dirFiles, png_files, delete_pngs, tar, tarState, toDelete,
                   dir0, notComp>>

CompressNext ==
    \/ compress_list
    \/ compress_open
    \/ compress_add
    \/ compress_close
    \/ compress_remove
    \/ compress_return

CompressSpec == CompressInit /\ [][CompressNext]_vars

\* the screenshots the directory held at the call, and those it holds now
Pngs0 == {x \in dir0 : x[2] = "png"}
PngsNow == {x \in dirFiles : x[2] = "png"}
Archives == {x \in dirFiles : x[2] = "tar.bz2"}

\* C10: with N screenshots in the directory, after _compress_pngs returns
\* there is exactly one archive and it holds the N base names; with deletion
\* enabled no screenshot is left; a screenshot is deleted only once the
\* archive with all N is closed; with N = 0 no archive is made.  No other
\* file is touched.
C10_Compress ==
    /\ (cpc = "done" /\ Pngs0 # {}) =>
          /\ Cardinality(Archives) = 1
          /\ tarState = "closed"
          /\ tar = Pngs0
    /\ (cpc = "done" /\ delete_pngs) => PngsNow = {}
    /\ (cpc = "done" /\ ~delete_pngs) => PngsNow = Pngs0
    /\ PngsNow # Pngs0 => (delete_pngs /\ tarState = "closed" /\ tar = Pngs0)
    /\ Pngs0 = {} => (Archives = {} /\ tarState = "none")
    /\ dirFiles \ (PngNames \cup {outfile}) = dir0 \ PngNames

C10_Witness ==
    /\ cpc = "done"
    /\ delete_pngs
    /\ Cardinality(Pngs0) = MaxPngs
    /\ <<0, "log">> \in dirFiles
    /\ PngsNow = {}
    /\ tar = Pngs0

(***************************************************************************)
(* The test run: __main__ (monkey.py 221-243), _db_run (189-213) and       *)
(* monkey() (45-138).  A device command is modelled by the outcome of the  *)
(* adb_shell call that carries it: "OK" is (True, output), "EMPTY" is      *)
(* (True, '') , "ERROR" is (True, None) and "TIMEOUT" is (False, None),    *)
(* the pairs Spec produces.  A device that is lost answers no command.     *)
(***************************************************************************)
ShellOutcomes ==
    IF device = "up" THEN {"OK", "EMPTY", "ERROR", "TIMEOUT"}
    ELSE {"ERROR", "TIMEOUT"}

\* adb_package_installed (sdk.py 301-303): success and len(output) > 0
adb_package_installed(o) ==
    CASE o = "OK" -> "True"
      [] o = "EMPTY" -> "False"
      [] o = "TIMEOUT" -> "False"
      [] o = "ERROR" -> "TypeError"

\* assert adb_package_installed(lumen_pkg) > 0 (sdk.py 307, 331, 345)
LumenAssert(o) ==
    CASE adb_package_installed(o) = "True" -> "ok"
      [] adb_package_installed(o) = "False" -> "AssertionError"
      [] OTHER -> adb_package_installed(o)

\* adb_uninstall_all (sdk.py 285-288) as UninstallSpec runs it
UninstallEffect(o) == IF o = "ERROR" THEN "AttributeError" ELSE "ok"

\* the outcomes of `ifconfig | grep tun0 | wc -l` (sdk.py 425): a count of
\* "1" or "0", (True, None) or (False, None)
TunOutcomes ==
    IF device = "up" THEN {"1", "0", "ERROR", "TIMEOUT"}
    ELSE {"ERROR", "TIMEOUT"}

\* adb_lumen_check after the boot wait (sdk.py 425-428): int(output) of None
\* raises TypeError; a count of 0 calls adb_start_lumen, whose asserts (sdk.py
\* 331, 307) are decided by the package query q
TunCheckEffect(o, q) ==
    CASE o = "ERROR" -> "TypeError"
      [] o = "TIMEOUT" -> "ok"
      [] o = "1" -> "ok"
      [] o = "0" -> LumenAssert(q)

\* the outcomes of one round of adb_wait_boot's probes (sdk.py 135, 153-163):
\* adb_call('devices') returning None makes result.lower() raise; a listed,
\* booted device ends the wait; anything else leads to the sleep of line 142
BootProbeOutcomes ==
    IF device = "up" THEN {"booted", "AttributeError"}
    ELSE {"sleep", "AttributeError"}

\* what adb_show_logs (sdk.py 378-385) prints for logcat -d
DumpOutcomes == IF device = "up" THEN {"logs", "None"} ELSE {"None"}

\* the except clause of monkey() (monkey.py 128)
Caught(e) == e = "CalledProcessError"

MutStatusAfterRun(exit) == 2

\* _db_run's try/except around monkey() (monkey.py 204-209)
StatusAfterRun(exit) == IF exit = "returned" THEN 2 ELSE -1

\* the fatal preconditions a command line can fail: the config path and the
\* [sdk] keys (sdk.py 25-38), the --apk path (monkey.py 234), the [monkey]
\* keys (monkey.py 14-22), and in queue mode the --dbcreds path, the
\* --apkroot path (monkey.py 190-191) and the [Database] keys (180-184)
Flaws(m) ==
    IF m = "single"
      THEN {"none", "config_path", "sdk_key", "apk_path", "monkey_key"}
      ELSE {"none", "config_path", "sdk_key", "monkey_key", "dbcreds_path",
            "apkroot_path", "db_key"}

RunInit ==
    /\ ExecIdle /\ UninstIdle /\ CompIdle /\ ChargeIdle /\ BootIdle
    /\ SetupIdle /\ ScreenIdle /\ FuzzIdle
    /\ rpc = "main"
    /\ mode \in {"single", "queue"}
    /\ skip_install \in (IF mode = "single" THEN BOOLEAN ELSE {FALSE})
    /\ apkIsFile \in (IF mode = "queue" THEN BOOLEAN ELSE {TRUE})
    /\ device = "up" /\ lostInFuzz = FALSE
    /\ exc = "none" /\ raisedIn = "none" /\ phase = "INIT"
    /\ logLines = <<>> /\ logOpen = FALSE /\ stdoutToFile = FALSE
    /\ statusLog = <<>> /\ startShots = 0 /\ fuzzShots = 0
    /\ compressed = FALSE /\ dumped = "no" /\ monkeyExit = "none"
    /\ flaw \in Flaws(mode)
    /\ fatal = "none"
    /\ trail = <<>>

\* a precondition check fails: its AssertionError is raised
Abort(f) ==
    /\ fatal' = f
    /\ exc' = "AssertionError"
    /\ rpc' = "aborted"

\* an exception e leaves monkey() before its try statement is entered
RaiseBeforeTry(e) ==
    /\ exc' = e
    /\ raisedIn' = phase'
    /\ monkeyExit' = "raised"
    /\ rpc' = "after_monkey"

\* an exception e is raised inside the try statement (monkey.py 91-126)
RaiseInTry(e) ==
    /\ exc' = e
    /\ raisedIn' = phase
    /\ rpc' = "except"

\* monkey.py 222-227 and sdk.init (sdk.py 44-53): the config is parsed, and
\* without --device the serial is read with adb_shell; a failed read fails
\* the assert of sdk.py 52 or lowers None (sdk.py 53)
main_init ==
    /\ rpc = "main"
    /\ IF flaw \in {"config_path", "sdk_key"}
         THEN /\ Abort(flaw)
              /\ UNCHANGED trail
         ELSE \E given \in BOOLEAN :
                 /\ trail' = IF given THEN trail ELSE Append(trail, "serial")
                 /\ \/ /\ rpc' = IF mode = "single" THEN "apk_check"
                                 ELSE "pre_reboot"
                       /\ UNCHANGED <<exc, fatal>>
                    \/ /\ ~given
                       /\ \E e \in {"AssertionError", "AttributeError"} :
                             exc' = e
                       /\ rpc' = "aborted"
                       /\ UNCHANGED fatal
    /\ UNCHANGED <<mode, skip_install, apkIsFile, device, lostInFuzz,
                   raisedIn, phase, logLines, logOpen, stdoutToFile,
                   statusLog, startShots, fuzzShots, compressed, dumped,
                   monkeyExit, flaw, notRun>>

\* monkey.py 232-235
main_check_apk ==
    /\ rpc = "apk_check"
    /\ IF flaw = "apk_path"
         THEN Abort(flaw)
         ELSE /\ rpc' = "pre_reboot"
              /\ UNCHANGED <<exc, fatal>>
    /\ UNCHANGED <<mode, skip_install, apkIsFile, device, lostInFuzz,
                   raisedIn, phase, logLines, logOpen, stdoutToFile,
                   statusLog, startShots, fuzzShots, compressed, dumped,
                   monkeyExit, flaw, trail, notRun>>

MutNextPreStep(s) ==
    CASE s = "pre_reboot" -> "pre_charge"
      [] s = "pre_charge" -> "pre_reboot"

\* the statement of _pre_run_checks that follows statement s (monkey.py
\* 167-174)
NextPreStep(s) ==
    CASE s = "pre_reboot" -> "pre_charge"
      [] s = "pre_charge" -> "pre_uninstall"

\* monkey.py 167: adb_reboot(wait=True) (sdk.py 146-151); a probe of
\* adb_wait_boot can raise
pre_run_reboot ==
    /\ rpc = "pre_reboot"
    /\ phase' = "PRECHECK"
    /\ trail' = Append(trail, "reboot")
    /\ \E o \in BootProbeOutcomes \ {"sleep"} :
          IF o = "booted"
            THEN /\ rpc' = NextPreStep(rpc)
                 /\ UNCHANGED exc
            ELSE /\ exc' = o
                 /\ rpc' = "aborted"
    /\ UNCHANGED <<mode, skip_install, apkIsFile, device, lostInFuzz,
                   raisedIn, logLines, logOpen, stdoutToFile, statusLog,
                   startShots, fuzzShots, compressed, dumped, monkeyExit,
                   flaw, fatal, notRun>>

\* monkey.py 170: _check_charge as ChargeSpec runs it
pre_run_check_charge ==
    /\ rpc = "pre_charge"
    /\ trail' = Append(trail, "charge")
    /\ \E r \in {"ok", "TypeError", "ValueError", "AttributeError"} :
          IF r = "ok"
            THEN /\ rpc' = NextPreStep(rpc)
                 /\ UNCHANGED exc
            ELSE /\ exc' = r
                 /\ rpc' = "aborted"
    /\ UNCHANGED <<mode, skip_install, apkIsFile, device, lostInFuzz,
                   raisedIn, phase, logLines, logOpen, stdoutToFile,
                   statusLog, startShots, fuzzShots, compressed, dumped,
                   monkeyExit, flaw, fatal, notRun>>

\* the uninstall_all argument of _pre_run_checks (monkey.py 237, 241)
uninstall_all == IF mode = "single" THEN ~skip_install ELSE TRUE

\* monkey.py 173-174, then the return to line 237 or 241
main_pre_run_checks ==
    /\ rpc = "pre_uninstall"
    /\ phase' = "PRECHECK"
    /\ IF uninstall_all
         THEN /\ trail' = Append(trail, "uninstall")
              /\ \E o \in ShellOutcomes :
                    IF UninstallEffect(o) = "ok"
                      THEN /\ rpc' = IF mode = "single" THEN "monkey"
                                     ELSE "db_run"
                           /\ UNCHANGED exc
                      ELSE /\ exc' = UninstallEffect(o)
                           /\ rpc' = "aborted"
         ELSE /\ rpc' = IF mode = "single" THEN "monkey" ELSE "db_run"
              /\ UNCHANGED <<exc, trail>>
    /\ UNCHANGED <<mode, skip_install, apkIsFile, device, lostInFuzz,
                   raisedIn, logLines, logOpen, stdoutToFile, statusLog,
                   startShots, fuzzShots, compressed, dumped, monkeyExit,
                   flaw, fatal, notRun>>

\* monkey.py 190-202 when the APK is a file, 211-213 when it is not
db_run_lookup ==
    /\ rpc = "db_run"
    /\ CASE flaw \in {"dbcreds_path", "apkroot_path", "db_key"} ->
              /\ Abort(flaw)
              /\ UNCHANGED statusLog
         [] flaw \notin {"dbcreds_path", "apkroot_path", "db_key"}
              /\ apkIsFile ->
              /\ statusLog' = Append(statusLog, 1)
              /\ rpc' = "monkey"
              /\ UNCHANGED <<exc, fatal>>
         [] OTHER ->
              /\ statusLog' = Append(statusLog, -1)
              /\ exc' = "AssertionError"
              /\ rpc' = "aborted"
              /\ UNCHANGED fatal
    /\ UNCHANGED <<mode, skip_install, apkIsFile, device, lostInFuzz,
                   raisedIn, phase, logLines, logOpen, stdoutToFile,
                   startShots, fuzzShots, compressed, dumped, monkeyExit,
                   flaw, trail, notRun>>

\* monkey.py 46-58: parse_config and os.path.exists assert, aapt_call raises
\* CalledProcessError
monkey_mkdir ==
    /\ rpc = "monkey"
    /\ phase' = "SETUP"
    /\ trail' = Append(trail, "SETUP")
    /\ IF flaw = "monkey_key"
         THEN /\ RaiseBeforeTry("AssertionError")
              /\ fatal' = flaw
         ELSE /\ \/ /\ rpc' = "open_log"
                    /\ UNCHANGED <<exc, raisedIn, monkeyExit>>
                 \/ \E e \in {"AssertionError", "CalledProcessError"} :
                       RaiseBeforeTry(e)
              /\ UNCHANGED fatal
    /\ UNCHANGED <<mode, skip_install, apkIsFile, device, lostInFuzz,
                   logLines, logOpen, stdoutToFile, statusLog, startShots,
                   fuzzShots, compressed, dumped, flaw, notRun>>

\* monkey.py 60-66
monkey_open_log ==
    /\ rpc = "open_log"
    /\ logOpen' = TRUE
    /\ stdoutToFile' = TRUE
    /\ rpc' = "setup_device"
    /\ UNCHANGED <<mode, skip_install, apkIsFile, device, lostInFuzz, exc,
                   raisedIn, phase, logLines, statusLog, startShots,
                   fuzzShots, compressed, dumped, monkeyExit,
                   flaw, fatal, trail, notRun>>

\* monkey.py 68-86: adb_get_dev_file strips None (AttributeError) or moves a
\* file that was not pulled (OSError), the asserts of lines 80 and sdk.py
\* 331, 345 fail, or len(None) raises TypeError
monkey_setup_device ==
    /\ rpc = "setup_device"
    /\ \/ /\ device = "up"
          /\ rpc' = "start_app"
          /\ UNCHANGED <<exc, raisedIn, monkeyExit>>
       \/ \E e \in {"AssertionError", "AttributeError", "TypeError", "OSError"} :
             /\ UNCHANGED phase
             /\ RaiseBeforeTry(e)
    /\ UNCHANGED <<mode, skip_install, apkIsFile, device, lostInFuzz, phase,
                   logLines, logOpen, stdoutToFile, statusLog, startShots,
                   fuzzShots, compressed, dumped, flaw, fatal, trail, notRun>>

\* monkey.py 91-95
monkey_start_app ==
    /\ rpc = "start_app"
    /\ phase' = "INITIAL_CAPTURE"
    /\ trail' = Append(trail, "INITIAL_CAPTURE")
    /\ startShots' = 0
    /\ rpc' = "initial_loop"
    /\ UNCHANGED <<mode, skip_install, apkIsFile, device, lostInFuzz, exc,
                   raisedIn, logLines, logOpen, stdoutToFile, statusLog,
                   fuzzShots, compressed, dumped, monkeyExit,
                   flaw, fatal, notRun>>

\* monkey.py 96-99: the deadline has not passed
monkey_initial_shot ==
    /\ rpc = "initial_loop"
    /\ startShots < MaxStartShots
    /\ startShots' = startShots + 1
    /\ UNCHANGED <<rpc, mode, skip_install, apkIsFile, device, lostInFuzz,
                   exc, raisedIn, phase, logLines, logOpen, stdoutToFile,
                   statusLog, fuzzShots, compressed, dumped, monkeyExit,
                   flaw, fatal, trail, notRun>>

\* monkey.py 96 false, 102-103
monkey_initial_done ==
    /\ rpc = "initial_loop"
    /\ phase' = "FUZZ"
    /\ trail' = Append(trail, "FUZZ")
    /\ fuzzShots' = 0
    /\ rpc' = "fuzz_loop"
    /\ UNCHANGED <<mode, skip_install, apkIsFile, device, lostInFuzz, exc,
                   raisedIn, logLines, logOpen, stdoutToFile, statusLog,
                   startShots, compressed, dumped, monkeyExit,
                   flaw, fatal, notRun>>

\* monkey.py 104 true, 105: adb_lumen_check calls adb_wait_boot
monkey_fuzz_next ==
    /\ rpc = "fuzz_loop"
    /\ fuzzShots < MaxFuzzIter
    /\ rpc' = "wait_boot"
    /\ UNCHANGED <<mode, skip_install, apkIsFile, device, lostInFuzz, exc,
                   raisedIn, phase, logLines, logOpen, stdoutToFile,
                   statusLog, startShots, fuzzShots, compressed, dumped,
                   monkeyExit, flaw, fatal, trail, notRun>>

\* sdk.py 135-140: one round of probes
adb_wait_boot_probe ==
    /\ rpc = "wait_boot"
    /\ \E o \in BootProbeOutcomes :
          CASE o = "booted" -> /\ rpc' = "tun_check"
                               /\ UNCHANGED <<exc, raisedIn>>
            [] o = "sleep" -> /\ rpc' = "wait_boot_sleep"
                              /\ UNCHANGED <<exc, raisedIn>>
            [] OTHER -> RaiseInTry(o)
    /\ UNCHANGED <<mode, skip_install, apkIsFile, device, lostInFuzz, phase,
                   logLines, logOpen, stdoutToFile, statusLog, startShots,
                   fuzzShots, compressed, dumped, monkeyExit,
                   flaw, fatal, trail, notRun>>

\* sdk.py 142
adb_wait_boot_sleep ==
    /\ rpc = "wait_boot_sleep"
    /\ rpc' = "wait_boot"
    /\ UNCHANGED <<mode, skip_install, apkIsFile, device, lostInFuzz, exc,
                   raisedIn, phase, logLines, logOpen, stdoutToFile,
                   statusLog, startShots, fuzzShots, compressed, dumped,
                   monkeyExit, flaw, fatal, trail, notRun>>

\* sdk.py 425-428
adb_lumen_check_tun ==
    /\ rpc = "tun_check"
    /\ \E o \in TunOutcomes, q \in ShellOutcomes :
          IF TunCheckEffect(o, q) = "ok"
            THEN /\ rpc' = "fuzz_monkey"
                 /\ UNCHANGED <<exc, raisedIn>>
            ELSE RaiseInTry(TunCheckEffect(o, q))
    /\ UNCHANGED <<mode, skip_install, apkIsFile, device, lostInFuzz, phase,
                   logLines, logOpen, stdoutToFile, statusLog, startShots,
                   fuzzShots, compressed, dumped, monkeyExit,
                   flaw, fatal, trail, notRun>>

\* monkey.py 106-107: adb_monkey drops the result of its adb_shell call
monkey_fuzz_burst ==
    /\ rpc = "fuzz_monkey"
    /\ fuzzShots' = fuzzShots + 1
    /\ rpc' = "fuzz_shot"
    /\ UNCHANGED <<mode, skip_install, apkIsFile, device, lostInFuzz, exc,
                   raisedIn, phase, logLines, logOpen, stdoutToFile,
                   statusLog, startShots, compressed, dumped, monkeyExit,
                   flaw, fatal, trail, notRun>>

\* monkey.py 108-109
monkey_fuzz_shot ==
    /\ rpc = "fuzz_shot"
    /\ rpc' = "fuzz_loop"
    /\ UNCHANGED <<mode, skip_install, apkIsFile, device, lostInFuzz, exc,
                   raisedIn, phase, logLines, logOpen, stdoutToFile,
                   statusLog, startShots, fuzzShots, compressed, dumped,
                   monkeyExit, flaw, fatal, trail, notRun>>

\* monkey.py 104 false, 111-114
monkey_teardown_uninstall ==
    /\ rpc = "fuzz_loop"
    /\ phase' = "TEARDOWN"
    /\ trail' = Append(trail, "TEARDOWN")
    /\ \E o \in ShellOutcomes :
          IF skip_install \/ UninstallEffect(o) = "ok"
            THEN /\ rpc' = "toggle_lumen"
                 /\ UNCHANGED <<exc, raisedIn>>
            ELSE /\ exc' = UninstallEffect(o)
                 /\ raisedIn' = "TEARDOWN"
                 /\ rpc' = "except"
    /\ UNCHANGED <<mode, skip_install, apkIsFile, device, lostInFuzz,
                   logLines, logOpen, stdoutToFile, statusLog, startShots,
                   fuzzShots, compressed, dumped, monkeyExit,
                   flaw, fatal, notRun>>

\* monkey.py 116-120: three adb_toggle_lumen calls, each with the assert of
\* sdk.py 307, then adb_stop_lumen
monkey_teardown_lumen ==
    /\ rpc = "toggle_lumen"
    /\ \E o \in ShellOutcomes :
          IF LumenAssert(o) = "ok"
            THEN /\ rpc' = "compress"
                 /\ UNCHANGED <<exc, raisedIn>>
            ELSE RaiseInTry(LumenAssert(o))
    /\ UNCHANGED <<mode, skip_install, apkIsFile, device, lostInFuzz, phase,
                   logLines, logOpen, stdoutToFile, statusLog, startShots,
                   fuzzShots, compressed, dumped, monkeyExit,
                   flaw, fatal, trail, notRun>>

\* monkey.py 122-124: _compress_pngs as CompressSpec runs it
monkey_compress ==
    /\ rpc = "compress"
    /\ \/ /\ compressed' = TRUE
          /\ rpc' = "log_success"
          /\ UNCHANGED <<exc, raisedIn>>
       \/ /\ RaiseInTry("OSError")
          /\ UNCHANGED compressed
    /\ UNCHANGED <<mode, skip_install, apkIsFile, device, lostInFuzz, phase,
                   logLines, logOpen, stdoutToFile, statusLog, startShots,
                   fuzzShots, dumped, monkeyExit, flaw, fatal, trail, notRun>>

\* monkey.py 126
monkey_success ==
    /\ rpc = "log_success"
    /\ logLines' = Append(logLines, "SUCCESS")
    /\ rpc' = "finally"
    /\ UNCHANGED <<mode, skip_install, apkIsFile, device, lostInFuzz, exc,
                   raisedIn, phase, logOpen, stdoutToFile, statusLog,
                   startShots, fuzzShots, compressed, dumped, monkeyExit,
                   flaw, fatal, trail, notRun>>

\* monkey.py 128-129: the handler runs only for a CalledProcessError
monkey_except ==
    /\ rpc = "except"
    /\ IF Caught(exc)
         THEN /\ logLines' = Append(logLines, "CRASH")
              /\ exc' = "none"
         ELSE UNCHANGED <<logLines, exc>>
    /\ rpc' = "finally"
    /\ UNCHANGED <<mode, skip_install, apkIsFile, device, lostInFuzz,
                   raisedIn, phase, logOpen, stdoutToFile, statusLog,
                   startShots, fuzzShots, compressed, dumped, monkeyExit,
                   flaw, fatal, trail, notRun>>

\* monkey.py 131-138, then the return or the re-raise
monkey_finally ==
    /\ rpc = "finally"
    /\ phase' = "FINALIZE"
    /\ trail' = Append(trail, "FINALIZE")
    /\ \E d \in DumpOutcomes : dumped' = d
    /\ logLines' = Append(logLines, "LOGS")
    /\ stdoutToFile' = FALSE
    /\ logOpen' = FALSE
    /\ monkeyExit' = IF exc = "none" THEN "returned" ELSE "raised"
    /\ rpc' = "after_monkey"
    /\ UNCHANGED <<mode, skip_install, apkIsFile, device, lostInFuzz, exc,
                   raisedIn, statusLog, startShots, fuzzShots, compressed,
                   flaw, fatal, notRun>>

\* monkey.py 239: the run has its result; the process ends, with a traceback
\* if monkey() raised
main_after_monkey ==
    /\ rpc = "after_monkey"
    /\ trail' = Append(trail, "RESULT")
    /\ mode = "single"
    /\ rpc' = IF monkeyExit = "returned" THEN "exit" ELSE "aborted"
    /\ UNCHANGED <<mode, skip_install, apkIsFile, device, lostInFuzz, exc,
                   raisedIn, phase, logLines, logOpen, stdoutToFile,
                   statusLog, startShots, fuzzShots, compressed, dumped,
                   monkeyExit, flaw, fatal, notRun>>

\* monkey.py 206 after a return, 207-209 after an exception
db_run_after_monkey ==
    /\ rpc = "after_monkey"
    /\ trail' = Append(trail, "RESULT")
    /\ mode = "queue"
    /\ statusLog' = Append(statusLog, StatusAfterRun(monkeyExit))
    /\ exc' = "none"
    /\ rpc' = "exit"
    /\ UNCHANGED <<mode, skip_install, apkIsFile, device, lostInFuzz,
                   raisedIn, phase, logLines, logOpen, stdoutToFile,
                   startShots, fuzzShots, compressed, dumped, monkeyExit,
                   flaw, fatal, notRun>>

\* the device becomes unreachable while a run is under way, and stays so
device_lost ==
    /\ device = "up"
    /\ rpc \notin {"main", "apk_check", "pre_reboot", "pre_charge",
                  "pre_uninstall", "db_run", "exit", "aborted"}
    /\ device' = "lost"
    /\ lostInFuzz' = (phase = "FUZZ")
    /\ UNCHANGED <<rpc, mode, skip_install, apkIsFile, exc, raisedIn, phase,
                   logLines, logOpen, stdoutToFile, statusLog, startShots,
                   fuzzShots, compressed, dumped, monkeyExit,
                   flaw, fatal, trail, notRun>>

\* the steps of the driving thread
RunProgram ==
    \/ main_init
    \/ main_check_apk
    \/ pre_run_reboot
    \/ pre_run_check_charge
    \/ main_pre_run_checks
    \/ db_run_lookup
    \/ monkey_mkdir
    \/ monkey_open_log
    \/ monkey_setup_device
    \/ monkey_start_app
    \/ monkey_initial_shot
    \/ monkey_initial_done
    \/ monkey_fuzz_next
    \/ adb_wait_boot_probe
    \/ adb_wait_boot_sleep
    \/ adb_lumen_check_tun
    \/ monkey_fuzz_burst
    \/ monkey_fuzz_shot
    \/ monkey_teardown_uninstall
    \/ monkey_teardown_lumen
    \/ monkey_compress
    \/ monkey_success
    \/ monkey_except
    \/ monkey_finally
    \/ main_after_monkey
    \/ db_run_after_monkey

RunNext ==
    \/ RunProgram
    \/ device_lost

RunSpec == RunInit /\ [][RunNext]_vars

\* the driving thread keeps running: a step of the program that is possible
\* is eventually taken
FairRunSpec == RunInit /\ [][RunNext]_vars /\ WF_vars(RunProgram)


(***************************************************************************)
(* Claims about the test run, checked under RunSpec and FairRunSpec.       *)
(***************************************************************************)
Logged(tag) == \E i \in 1..Len(logLines) : logLines[i] = tag

LastStatus == IF statusLog = <<>> THEN 0 ELSE statusLog[Len(statusLog)]

LastStep == IF trail = <<>> THEN "none" ELSE trail[Len(trail)]

\* C5: an exception raised during INITIAL_CAPTURE, FUZZ or TEARDOWN does not
\* leave monkey(); the screenshots are compressed, the device logs dumped,
\* the log closed and stdout restored, and the run is marked CRASH.
C5_FailureCaughtAndFinalized ==
    (monkeyExit # "none" /\ raisedIn \in {"INITIAL_CAPTURE", "FUZZ", "TEARDOWN"}) =>
        /\ monkeyExit = "returned"
        /\ compressed
        /\ dumped # "no"
        /\ ~logOpen
        /\ ~stdoutToFile
        /\ Logged("CRASH")

\* C6 as stated: RUNNING (1) is set before any terminal status DONE (2) or
\* FAILED (-1), and nothing is set after a terminal status.
C6_RunningBeforeTerminal ==
    \A i \in 1..Len(statusLog) :
        statusLog[i] \in {2, -1} =>
            /\ \E j \in 1..(i - 1) : statusLog[j] = 1
            /\ i = Len(statusLog)

\* C6 as amended: when the APK is a file, RUNNING is set before monkey()
\* starts and exactly one of DONE and FAILED after it ended, FAILED exactly
\* when it raised; when the APK is not a file, FAILED is the only status set
\* and monkey() is not started; nothing is set after DONE or FAILED.
C6_StatusOrder ==
    /\ statusLog \in {<<>>, <<1>>, <<1, 2>>, <<1, -1>>, <<-1>>}
    /\ statusLog = <<-1>> =>
          (mode = "queue" /\ ~apkIsFile /\ rpc = "aborted"
           /\ monkeyExit = "none")
    /\ (mode = "queue" /\ ~apkIsFile) =>
          (statusLog \in {<<>>, <<-1>>} /\ monkeyExit = "none")
    /\ (mode = "queue" /\ ~apkIsFile /\ rpc = "aborted"
        /\ exc = "AssertionError" /\ fatal = "none"
        /\ LastStep = "uninstall") => statusLog = <<-1>>
    /\ (mode = "queue" /\ phase \notin {"INIT", "PRECHECK"}) =>
          (apkIsFile /\ statusLog # <<>> /\ statusLog[1] = 1)
    /\ (mode = "queue" /\ monkeyExit = "none") => Len(statusLog) <= 1
    /\ (mode = "queue" /\ rpc = "exit") =>
          /\ monkeyExit = "returned" => statusLog = <<1, 2>>
          /\ monkeyExit = "raised" => statusLog = <<1, -1>>

C6_Witness ==
    /\ mode = "queue"
    /\ rpc = "exit"
    /\ monkeyExit = "raised"
    /\ raisedIn = "FUZZ"
    /\ statusLog = <<1, -1>>

\* C7: in queue mode a run during whose FUZZ loop the device is lost leaves
\* the queue status FAILED, and DONE is set only after SUCCESS was logged.
C7_CrashLeavesFailed ==
    /\ [](LastStatus = 2 => Logged("SUCCESS"))
    /\ (mode = "queue" /\ lostInFuzz) ~> (LastStatus = -1)

\* C8: when the device is lost during the FUZZ loop and stays lost, monkey()
\* ends, with the device logs dumped, the log closed and a CRASH line logged.
C8_LostDeviceEndsInCrash ==
    lostInFuzz ~> /\ monkeyExit # "none"
                  /\ dumped # "no"
                  /\ ~logOpen
                  /\ Logged("CRASH")

\* the log file was opened by this run: it is open, or the finally block,
\* which is entered only with the file open, has closed it
LogWasOpened == logOpen \/ phase = "FINALIZE"

\* C12: whenever monkey() has ended after opening the log file, the device
\* logs were dumped, the log file is closed and sys.stdout is the original
\* stream again.
C12_LogReleasedOnEveryExit ==
    (monkeyExit # "none" /\ LogWasOpened) =>
        /\ dumped # "no"
        /\ ~logOpen
        /\ ~stdoutToFile

\* C13: when the check of a fatal precondition (a path or a required config
\* key) has failed, no device command has been issued: neither the serial
\* query, nor the reboot, nor a command of the later steps.
C13_PreconditionsBeforeDevice == fatal # "none" => trail = <<>>

\* the place of a step or a phase in the order of a run
Rank(t) ==
    CASE t = "serial" -> 0
      [] t = "reboot" -> 1
      [] t = "charge" -> 2
      [] t = "uninstall" -> 3
      [] t = "SETUP" -> 4
      [] t = "INITIAL_CAPTURE" -> 5
      [] t = "FUZZ" -> 6
      [] t = "TEARDOWN" -> 7
      [] t = "FINALIZE" -> 8
      [] t = "RESULT" -> 9

InTrail(t) == \E i \in 1..Len(trail) : trail[i] = t

TestsStarted == Cardinality({i \in 1..Len(statusLog) : statusLog[i] = 1})

\* C25: in queue mode, once the failure of an application's run has been
\* caught and recorded, the test of another application is started.
C25_QueueContinuesAfterFailure ==
    (mode = "queue" /\ monkeyExit = "raised" /\ LastStatus = -1)
        ~> (TestsStarted >= 2)

(***************************************************************************)
(* _check_charge (monkey.py 154-163) over adb_battery_level (sdk.py        *)
(* 451-455).  The pair adb_shell returns for the capacity query is a       *)
(* record: success, and the text read, which is decimal digits, some other *)
(* text, or None.                                                          *)
(***************************************************************************)
\* the percentages the capacity file can hold in the model
BatteryLevels == {3, 5, 50, 90, 100}

\* values of --mincharge (monkey.py 40): the default, and a larger one
MinCharges == {5, 60}

\* the pairs adb_shell can return for `cat .../battery/capacity`
BatteryOutcomes ==
    {[success |-> TRUE, kind |-> "digits", n |-> l] : l \in BatteryLevels}
    \cup {[success |-> TRUE, kind |-> "text", n |-> 0],
          [success |-> TRUE, kind |-> "none", n |-> 0],
          [success |-> FALSE, kind |-> "none", n |-> 0]}

\* Python's int(result) (sdk.py 453)
PyInt(o) ==
    CASE o.kind = "digits" -> [exc |-> "none", value |-> o.n]
      [] o.kind = "text" -> [exc |-> "ValueError", value |-> 0]
      [] o.kind = "none" -> [exc |-> "TypeError", value |-> 0]

\* sdk.py 451-455: 0 if not success else int(result)
adb_battery_level(o) ==
    IF ~o.success THEN [exc |-> "none", value |-> 0] ELSE PyInt(o)

MutBelowMin(c, m) == c <= m

\* monkey.py 157
BelowMin(c, m) == c < m

\* adb_screen_turn_off / adb_screen_turn_on (sdk.py 399-405): the probe
\* adb_is_screen_on strips None when the command exited with an error
ScreenCallOutcomes == {"ok", "AttributeError"}

ChargeInit ==
    /\ ExecIdle /\ UninstIdle /\ CompIdle /\ RunIdle /\ BootIdle
    /\ SetupIdle /\ ScreenIdle /\ FuzzIdle
    /\ kpc = "entry"
    /\ mincharge \in MinCharges
    /\ charge = 0
    /\ chargeLog = <<>>
    /\ kexc = "none"

\* a reading r is assigned to charge, or the exception of the query leaves
\* _check_charge
TakeReading(r, nextpc) ==
    IF r.exc = "none"
      THEN /\ charge' = r.value
           /\ chargeLog' = Append(chargeLog, [ev |-> "read", v |-> r.value])
           /\ kpc' = nextpc
           /\ UNCHANGED kexc
      ELSE /\ kexc' = r.exc
           /\ kpc' = "raised"
           /\ UNCHANGED <<charge, chargeLog>>

\* monkey.py 156
check_charge_entry ==
    /\ kpc = "entry"
    /\ \E o \in BatteryOutcomes : TakeReading(adb_battery_level(o), "test")
    /\ UNCHANGED <<mincharge, notCharge>>

\* monkey.py 157 false: return
check_charge_enough ==
    /\ kpc = "test"
    /\ ~BelowMin(charge, mincharge)
    /\ kpc' = "done"
    /\ UNCHANGED <<mincharge, charge, chargeLog, kexc, notCharge>>

\* monkey.py 157 true, 158
check_charge_screen_off ==
    /\ kpc = "test"
    /\ BelowMin(charge, mincharge)
    /\ chargeLog' = Append(chargeLog, [ev |-> "off", v |-> 0])
    /\ \E r \in ScreenCallOutcomes :
          IF r = "ok" THEN kpc' = "loop" /\ UNCHANGED kexc
          ELSE kpc' = "raised" /\ kexc' = r
    /\ UNCHANGED <<mincharge, charge, notCharge>>

\* monkey.py 159 true, 160-162: the sleep, then the next reading
check_charge_poll ==
    /\ kpc = "loop"
    /\ charge < charge_to
    /\ Len(chargeLog) < MaxPolls + 2
    /\ \E o \in BatteryOutcomes : TakeReading(adb_battery_level(o), "loop")
    /\ UNCHANGED <<mincharge, notCharge>>

\* monkey.py 159 false, 163
check_charge_screen_on ==
    /\ kpc = "loop"
    /\ ~(charge < charge_to)
    /\ chargeLog' = Append(chargeLog, [ev |-> "on", v |-> 0])
    /\ \E r \in ScreenCallOutcomes :
          IF r = "ok" THEN kpc' = "done" /\ UNCHANGED kexc
          ELSE kpc' = "raised" /\ kexc' = r
    /\ UNCHANGED <<mincharge, charge, notCharge>>

ChargeNext ==
    \/ check_charge_entry
    \/ check_charge_enough
    \/ check_charge_screen_off
    \/ check_charge_poll
    \/ check_charge_screen_on

ChargeSpec == ChargeInit /\ [][ChargeNext]_vars

\* the positions of the readings in the log, and the reading before entry i
ReadsBefore(i) == {j \in 1..(i - 1) : chargeLog[j].ev = "read"}
LastReadBefore(i) ==
    chargeLog[CHOOSE j \in ReadsBefore(i) : \A k \in ReadsBefore(i) : k <= j].v

\* C11: the first thing _check_charge does is read the level.  When that
\* reading is not below mincharge nothing else is issued.  When it is, the
\* screen-off call comes next, a further reading is taken only while the
\* latest one is below charge_to, the screen-on call is issued only when the
\* latest reading is at least charge_to and nothing follows it, and the
\* function returns only after the screen-on call.
C11_ChargeGate ==
    /\ Len(chargeLog) >= 1 => chargeLog[1].ev = "read"
    /\ (Len(chargeLog) >= 1 /\ ~(chargeLog[1].v < mincharge)) =>
          Len(chargeLog) = 1
    /\ (Len(chargeLog) >= 1 /\ chargeLog[1].v < mincharge) =>
          /\ kpc # "test" => (Len(chargeLog) >= 2 /\ chargeLog[2].ev = "off")
          /\ \A i \in 3..Len(chargeLog) :
                /\ chargeLog[i].ev # "off"
                /\ chargeLog[i].ev = "read" => LastReadBefore(i) < charge_to
                /\ chargeLog[i].ev = "on" =>
                      (i = Len(chargeLog) /\ LastReadBefore(i) >= charge_to)
          /\ kpc = "done" => chargeLog[Len(chargeLog)].ev = "on"

C11_Witness ==
    /\ kpc = "done"
    /\ mincharge = 5
    /\ chargeLog = <<[ev |-> "read", v |-> 3], [ev |-> "off", v |-> 0],
                     [ev |-> "read", v |-> 50], [ev |-> "read", v |-> 90],
                     [ev |-> "on", v |-> 0]>>

\* C20: adb_battery_level does not raise when the query command exited with
\* an error: no battery query ends _check_charge with the TypeError of
\* converting None.
C20_BatteryLevelNeverRaises == kexc # "TypeError"

(***************************************************************************)
(* adb_wait_boot (sdk.py 130-144) with its probes adb_isconnected (153-158)*)
(* and adb_isbooted (160-163).  devState is what the device and the adb    *)
(* host answer at the moment:                                              *)
(*   "adb_failed"  `adb devices` itself exits with an error                *)
(*   "absent"      `adb devices` does not list the serial                  *)
(*   "offline"     the serial is listed, shell commands exit with an error *)
(*   "hung"        the serial is listed, shell commands do not return      *)
(*   "booting"     the shell answers, sys.boot_completed is not yet 1      *)
(*   "ready"       the shell answers, sys.boot_completed is 1              *)
(***************************************************************************)
DevStates == {"adb_failed", "absent", "offline", "hung", "booting", "ready"}

\* adb_isconnected (sdk.py 153-158): adb_call returns None when the command
\* failed, and None.lower() raises
adb_isconnected(d) ==
    CASE d = "adb_failed" -> "AttributeError"
      [] d = "absent" -> "False"
      [] OTHER -> "True"

\* adb_isbooted (sdk.py 160-163): success and result.strip() == '1';
\* adb_shell returns (True, None) for a command that exited with an error
\* and (False, None) for one that timed out
adb_isbooted(d) ==
    CASE d = "ready" -> "True"
      [] d = "booting" -> "False"
      [] d = "hung" -> "False"
      [] OTHER -> "AttributeError"

MutBootDone(c, b) == c

\* the negation of the loop condition of line 135
BootDone(c, b) == c /\ b

Sat(t) == IF t > MaxBootClock THEN MaxBootClock ELSE t

WaitBootInit ==
    /\ ExecIdle /\ UninstIdle /\ CompIdle /\ RunIdle /\ ChargeIdle
    /\ SetupIdle /\ ScreenIdle /\ FuzzIdle
    /\ bpc = "isconnected"
    /\ devState \in DevStates
    /\ bnow = 0
    /\ bend = BootTimeout
    /\ lastRound = [connected |-> FALSE, booted |-> FALSE]
    /\ reissues = <<>>
    /\ bexc = "none"

\* line 135, left operand of `and`
wait_boot_isconnected ==
    /\ bpc = "isconnected"
    /\ CASE adb_isconnected(devState) = "True" ->
              /\ bpc' = "isbooted"
              /\ UNCHANGED <<lastRound, bexc>>
         [] adb_isconnected(devState) = "False" ->
              /\ lastRound' = [connected |-> FALSE, booted |-> FALSE]
              /\ bpc' = "deadline"
              /\ UNCHANGED bexc
         [] OTHER ->
              /\ bexc' = adb_isconnected(devState)
              /\ bpc' = "raised"
              /\ UNCHANGED lastRound
    /\ UNCHANGED <<devState, bnow, bend, reissues, notBoot>>

\* line 135, right operand of `and`, then the loop test; line 144 on exit
wait_boot_isbooted ==
    /\ bpc = "isbooted"
    /\ IF adb_isbooted(devState) \in {"True", "False"}
         THEN /\ lastRound' = [connected |-> TRUE,
                               booted |-> adb_isbooted(devState) = "True"]
              /\ bpc' = IF BootDone(TRUE, adb_isbooted(devState) = "True")
                          THEN "done" ELSE "deadline"
              /\ UNCHANGED bexc
         ELSE /\ bexc' = adb_isbooted(devState)
              /\ bpc' = "raised"
              /\ UNCHANGED lastRound
    /\ UNCHANGED <<devState, bnow, bend, reissues, notBoot>>

\* line 137, left operand of `and`
wait_boot_deadline ==
    /\ bpc = "deadline"
    /\ bpc' = IF bnow > bend THEN "reissue" ELSE "sleep"
    /\ UNCHANGED <<devState, bnow, bend, lastRound, reissues, bexc, notBoot>>

\* line 137, right operand of `and`, and lines 138-140: the reboot command
\* takes d seconds
wait_boot_reissue ==
    /\ bpc = "reissue"
    /\ CASE adb_isconnected(devState) = "True" ->
              \E d \in 0..1 :
                 /\ reissues' = Append(reissues,
                       [at |-> bnow, deadline |-> bend, dev |-> devState])
                 /\ bnow' = Sat(bnow + d)
                 /\ bend' = Sat(bnow + d) + BootTimeout
                 /\ bpc' = "sleep"
                 /\ UNCHANGED bexc
         [] adb_isconnected(devState) = "False" ->
              /\ bpc' = "sleep"
              /\ UNCHANGED <<bnow, bend, reissues, bexc>>
         [] OTHER ->
              /\ bexc' = adb_isconnected(devState)
              /\ bpc' = "raised"
              /\ UNCHANGED <<bnow, bend, reissues>>
    /\ UNCHANGED <<devState, lastRound, notBoot>>

\* line 142
wait_boot_sleep ==
    /\ bpc = "sleep"
    /\ bnow' = Sat(bnow + PollSecs)
    /\ bpc' = "isconnected"
    /\ UNCHANGED <<devState, bend, lastRound, reissues, bexc, notBoot>>

\* the device or the adb host changes what it answers
boot_device_change ==
    /\ bpc \notin {"done", "raised"}
    /\ \E d \in DevStates \ {devState} : devState' = d
    /\ UNCHANGED <<bpc, bnow, bend, lastRound, reissues, bexc, notBoot>>

WaitBootProgram ==
    \/ wait_boot_isconnected
    \/ wait_boot_isbooted
    \/ wait_boot_deadline
    \/ wait_boot_reissue
    \/ wait_boot_sleep

WaitBootNext ==
    \/ WaitBootProgram
    \/ boot_device_change

WaitBootSpec == WaitBootInit /\ [][WaitBootNext]_vars

\* the polling loop keeps running
FairWaitBootSpec ==
    WaitBootInit /\ [][WaitBootNext]_vars /\ WF_vars(WaitBootProgram)

C19_WaitBootLoopsUntilBooted ==
    /\ [](bexc = "none")
    /\ (<>[](devState = "ready")) => <>(bpc = "done")

(***************************************************************************)
(* SETUP of monkey() (monkey.py 46-86) in detail: the run directory, the   *)
(* log artifact, the device commands, the installation and its             *)
(* verification.  A package name is a sequence of pieces of text, so that  *)
(* one name can be part of another.                                        *)
(***************************************************************************)
\* the package of the APK under test (monkey.py 49): Gmail
package == <<"com.google.android.", "g", "m">>

\* a package of the allow list dont_uninstall (sdk.py 252): Play services
gms_pkg == <<"com.google.android.", "g", "m", "s">>

other_pkg == <<"com.example.", "g", "m">>

DevicePkgs == {package, gms_pkg, other_pkg}

\* the text f occurs in the name n
Contains(n, f) ==
    \E i \in 1..(Len(n) - Len(f) + 1) : SubSeq(n, i, i + Len(f) - 1) = f

\* what the device prints for `pm list packages FILTER`: the installed
\* packages whose name contains FILTER
PmList(installed, filter) == {n \in installed : Contains(n, filter)}

\* the pairs adb_shell can return for `pm list packages <package>`
\* (sdk.py 302): the listing, (True, None) or (False, None)
QueryOutcomes ==
    {[success |-> TRUE, isNone |-> FALSE, output |-> PmList(devPkgs, package)],
     [success |-> TRUE, isNone |-> TRUE, output |-> {}],
     [success |-> FALSE, isNone |-> TRUE, output |-> {}]}

\* sdk.py 303: success and len(output) > 0; len(None) raises TypeError
PackageInstalled(o) ==
    CASE ~o.success -> "False"
      [] o.success /\ o.isNone -> "TypeError"
      [] OTHER -> IF o.output # {} THEN "True" ELSE "False"

MutMakedirsRaises(state) == FALSE

\* os.makedirs(data_dir) (monkey.py 58) raises FileExistsError when the
\* directory exists
MakedirsRaises(state) == state # "absent"

SetupInit ==
    /\ ExecIdle /\ UninstIdle /\ CompIdle /\ RunIdle /\ ChargeIdle /\ BootIdle
    /\ ScreenIdle /\ FuzzIdle
    /\ tpc = "parse"
    /\ tskip \in BOOLEAN
    /\ devPkgs \in SUBSET DevicePkgs
    /\ dirState \in {"absent", "foreign"}
    /\ created = 0
    /\ artifacts = {}
    /\ setupCmds = {}
    /\ texc = NoExc

\* the exception e raised at line l leaves monkey(): no handler encloses
\* lines 46-86
SetupRaise(e, l) ==
    /\ texc' = [type |-> e, line |-> l]
    /\ tpc' = "raised"

\* monkey.py 46-56: parse_config asserts, aapt raises CalledProcessError
setup_parse ==
    /\ tpc = "parse"
    /\ \/ /\ tpc' = "assert_dir"
          /\ UNCHANGED texc
       \/ SetupRaise("AssertionError", 46)
       \/ SetupRaise("CalledProcessError", 49)
    /\ UNCHANGED <<tskip, devPkgs, dirState, created, artifacts, setupCmds,
                   notSetup>>

\* monkey.py 57
setup_assert_dir ==
    /\ tpc = "assert_dir"
    /\ IF dirState # "absent"
         THEN SetupRaise("AssertionError", 57)
         ELSE /\ tpc' = "makedirs"
              /\ UNCHANGED texc
    /\ UNCHANGED <<tskip, devPkgs, dirState, created, artifacts, setupCmds,
                   notSetup>>

\* monkey.py 58
setup_makedirs ==
    /\ tpc = "makedirs"
    /\ IF MakedirsRaises(dirState)
         THEN /\ SetupRaise("FileExistsError", 58)
              /\ UNCHANGED <<dirState, created>>
         ELSE /\ dirState' = IF dirState = "absent" THEN "own" ELSE dirState
              /\ created' = IF dirState = "absent" THEN created + 1
                            ELSE created
              /\ tpc' = "open_log"
              /\ UNCHANGED texc
    /\ UNCHANGED <<tskip, devPkgs, artifacts, setupCmds, notSetup>>

\* another process creates a directory of the same name before this run does
other_process_mkdir ==
    /\ tpc \in {"parse", "assert_dir", "makedirs"}
    /\ dirState = "absent"
    /\ dirState' = "foreign"
    /\ UNCHANGED <<tpc, tskip, devPkgs, created, artifacts, setupCmds, texc,
                   notSetup>>

\* monkey.py 61-66
setup_open_log ==
    /\ tpc = "open_log"
    /\ \/ /\ artifacts' = artifacts \cup {"log"}
          /\ tpc' = "clear_logs"
          /\ UNCHANGED texc
       \/ /\ SetupRaise("OSError", 65)
          /\ UNCHANGED artifacts
    /\ UNCHANGED <<tskip, devPkgs, dirState, created, setupCmds, notSetup>>

\* monkey.py 69-72: adb_clear_logs (sdk.py 356-364) drops every result
setup_clear_logs ==
    /\ tpc = "clear_logs"
    /\ setupCmds' = setupCmds \cup {"shell", "logcat"}
    /\ tpc' = "dev_file"
    /\ UNCHANGED <<tskip, devPkgs, dirState, created, artifacts, texc,
                   notSetup>>

\* monkey.py 75: adb_get_dev_file (sdk.py 343-354) asserts the capture tool
\* is installed, strips the serial, pulls the file and moves it
setup_get_dev_file ==
    /\ tpc = "dev_file"
    /\ \/ /\ setupCmds' = setupCmds \cup {"shell", "get-serialno", "pull"}
          /\ artifacts' = artifacts \cup {"device"}
          /\ tpc' = "install"
          /\ UNCHANGED texc
       \/ /\ \E e \in {"AssertionError", "TypeError"} : SetupRaise(e, 75)
          /\ setupCmds' = setupCmds \cup {"shell"}
          /\ UNCHANGED artifacts
       \/ /\ SetupRaise("AttributeError", 75)
          /\ setupCmds' = setupCmds \cup {"shell", "get-serialno"}
          /\ UNCHANGED artifacts
       \/ /\ SetupRaise("OSError", 75)
          /\ setupCmds' = setupCmds \cup {"shell", "get-serialno", "pull"}
          /\ UNCHANGED artifacts
    /\ UNCHANGED <<tskip, devPkgs, dirState, created, notSetup>>

\* monkey.py 78-79: adb_install (sdk.py 165-182) drops the result of the
\* install command, which has installed the package or has not
setup_install ==
    /\ tpc = "install"
    /\ IF tskip
         THEN UNCHANGED <<devPkgs, setupCmds>>
         ELSE /\ setupCmds' = setupCmds \cup {"install", "shell"}
              /\ \/ devPkgs' = devPkgs \cup {package}
                 \/ UNCHANGED devPkgs
    /\ tpc' = "verify"
    /\ UNCHANGED <<tskip, dirState, created, artifacts, texc, notSetup>>

\* monkey.py 80
setup_verify ==
    /\ tpc = "verify"
    /\ setupCmds' = setupCmds \cup {"shell"}
    /\ \E o \in QueryOutcomes :
          CASE PackageInstalled(o) = "True" ->
                 /\ tpc' = "start_lumen"
                 /\ UNCHANGED texc
            [] PackageInstalled(o) = "False" ->
                 SetupRaise("AssertionError", 80)
            [] OTHER -> SetupRaise(PackageInstalled(o), 80)
    /\ UNCHANGED <<tskip, devPkgs, dirState, created, artifacts, notSetup>>

\* monkey.py 83-91: adb_clear_screen, adb_start_lumen with its asserts
\* (sdk.py 331, 307), then the try statement is entered
setup_start_lumen ==
    /\ tpc = "start_lumen"
    /\ setupCmds' = setupCmds \cup {"shell"}
    /\ \/ /\ tpc' = "start_app"
          /\ UNCHANGED texc
       \/ \E e \in {"AssertionError", "TypeError"} : SetupRaise(e, 86)
    /\ UNCHANGED <<tskip, devPkgs, dirState, created, artifacts, notSetup>>

SetupNext ==
    \/ setup_parse
    \/ setup_assert_dir
    \/ setup_makedirs
    \/ other_process_mkdir
    \/ setup_open_log
    \/ setup_clear_logs
    \/ setup_get_dev_file
    \/ setup_install
    \/ setup_verify
    \/ setup_start_lumen

SetupSpec == SetupInit /\ [][SetupNext]_vars

\* C14: SETUP goes past the verification of line 80 only with the package
\* under test on the device.
C14_VerifiedMeansPresent ==
    tpc \in {"start_lumen", "start_app"} => package \in devPkgs

\* C17: the run directory is created by this run at most once; while a
\* directory this run did not create is in its place, the run has written
\* no artifact, issued no device command of SETUP and gone no further than
\* the creation; whatever was written or issued came after this run
\* created the directory itself.
C17_RunDirNeverReused ==
    /\ created <= 1
    /\ created = 1 <=> dirState = "own"
    /\ dirState = "foreign" =>
          /\ artifacts = {}
          /\ setupCmds = {}
          /\ tpc \in {"parse", "assert_dir", "makedirs", "raised"}
    /\ tpc \notin {"parse", "assert_dir", "makedirs", "raised"} =>
          dirState = "own"
    /\ (artifacts # {} \/ setupCmds # {}) => dirState = "own"

C17_Witness ==
    /\ tpc = "raised"
    /\ texc = [type |-> "FileExistsError", line |-> 58]
    /\ dirState = "foreign"
    /\ artifacts = {}
    /\ setupCmds = {}

(***************************************************************************)
(* adb_is_screen_on, adb_screen_turn_on and adb_screen_turn_off (sdk.py    *)
(* 395-405), called one after the other on a device whose display only     *)
(* the power key changes.  A text is a sequence of characters.             *)
(***************************************************************************)
MaxScreenCalls == 2

Whitespace == {" ", "\n"}

\* str.strip(): the text without its leading and trailing whitespace
RECURSIVE Strip(_)
Strip(t) ==
    IF t = <<>> THEN t
    ELSE IF Head(t) \in Whitespace THEN Strip(Tail(t))
    ELSE IF t[Len(t)] \in Whitespace THEN Strip(SubSeq(t, 1, Len(t) - 1))
    ELSE t

\* what `dumpsys power | grep 'Display Power' | cut -d'=' -f2` prints
PowerLine(d) ==
    IF d = "ON" THEN <<"O", "N", "\n">> ELSE <<"O", "F", "F", "\n">>

\* the pairs adb_shell can return for the probe (sdk.py 396): the line of
\* the display, no line at all, (True, None) or (False, None)
ProbeOutcomes(d) ==
    {[success |-> TRUE, isNone |-> FALSE, text |-> PowerLine(d)],
     [success |-> TRUE, isNone |-> FALSE, text |-> <<>>],
     [success |-> TRUE, isNone |-> TRUE, text |-> <<>>],
     [success |-> FALSE, isNone |-> TRUE, text |-> <<>>]}

\* sdk.py 397: success and result.strip() == 'ON'
adb_is_screen_on(o) ==
    CASE ~o.success -> "False"
      [] o.success /\ o.isNone -> "AttributeError"
      [] OTHER -> IF Strip(o.text) = <<"O", "N">> THEN "True" ELSE "False"

\* sdk.py 400, 404: the condition under which the key command is sent
SendsKey(w, on) == IF w = "on" THEN ~on ELSE on

\* `input keyevent 26` flips the display when the device executes it
PowerKey(d) == IF d = "ON" THEN "OFF" ELSE "ON"

KeyOutcomes == {"OK", "ERROR", "TIMEOUT"}

ScreenInit ==
    /\ ExecIdle /\ UninstIdle /\ CompIdle /\ RunIdle /\ ChargeIdle /\ BootIdle
    /\ FuzzIdle
    /\ SetupIdle
    /\ npc = "idle"
    /\ display \in {"ON", "OFF"}
    /\ want = "on"
    /\ before = display
    /\ probed = FALSE
    /\ sent = "no"
    /\ calls = <<>>
    /\ nexc = "none"

\* adb_screen_turn_on() or adb_screen_turn_off() is called
screen_call ==
    /\ npc = "idle"
    /\ Len(calls) < MaxScreenCalls
    /\ want' \in {"on", "off"}
    /\ before' = display
    /\ sent' = "no"
    /\ npc' = "probe"
    /\ UNCHANGED <<display, probed, calls, nexc, notScreen>>

\* sdk.py 395-397, 400, 404
screen_probe ==
    /\ npc = "probe"
    /\ \E o \in ProbeOutcomes(display) :
          CASE adb_is_screen_on(o) = "AttributeError" ->
                 /\ nexc' = "AttributeError"
                 /\ npc' = "raised"
                 /\ UNCHANGED probed
            [] OTHER ->
                 /\ probed' = (adb_is_screen_on(o) = "True")
                 /\ npc' = IF SendsKey(want, probed') THEN "key" ELSE "return"
                 /\ UNCHANGED nexc
    /\ UNCHANGED <<display, want, before, sent, calls, notScreen>>

\* sdk.py 401, 405: adb_shell('input keyevent 26'), its result dropped
screen_key ==
    /\ npc = "key"
    /\ \E k \in KeyOutcomes :
          /\ sent' = k
          /\ display' = IF k = "OK" THEN PowerKey(display) ELSE display
    /\ npc' = "return"
    /\ UNCHANGED <<want, before, probed, calls, nexc, notScreen>>

\* the call returns
screen_return ==
    /\ npc = "return"
    /\ calls' = Append(calls, [want |-> want, before |-> before,
                               probed |-> probed, sent |-> sent,
                               after |-> display])
    /\ npc' = "idle"
    /\ UNCHANGED <<display, want, before, probed, sent, nexc, notScreen>>

ScreenNext ==
    \/ screen_call
    \/ screen_probe
    \/ screen_key
    \/ screen_return

ScreenSpec == ScreenInit /\ [][ScreenNext]_vars

\* the display a call asks for
Requested(c) == IF c.want = "on" THEN "ON" ELSE "OFF"

\* the call sent no key command, or the device executed the one it sent
KeyNotLost(c) == c.sent \in {"no", "OK"}

\* C21: a call of adb_screen_turn_on or adb_screen_turn_off whose key
\* command, if any, the device executed leaves the display in the state the
\* call asks for, and two such calls of the same function in a row send at
\* most one key command between them.
C21_ScreenIdempotent ==
    /\ \A i \in 1..Len(calls) :
          KeyNotLost(calls[i]) => calls[i].after = Requested(calls[i])
    /\ \A i \in 1..(Len(calls) - 1) :
          (/\ calls[i].want = calls[i + 1].want
           /\ KeyNotLost(calls[i]) /\ KeyNotLost(calls[i + 1]))
          => ~(calls[i].sent = "OK" /\ calls[i + 1].sent = "OK")

(***************************************************************************)
(* The two loops of monkey() (monkey.py 93-109) with the commands of       *)
(* adb_lumen_check (sdk.py 420-428), adb_monkey (430-449) and              *)
(* adb_screenshot (407-414).  Time is counted in units of which a burst    *)
(* or a capture takes one or two.                                          *)
(***************************************************************************)
\* initial_screen_secs and time_limit_mins (monkey.py 95, 102), in units
InitialLimit == 2
FuzzLimit == 2

\* the retry_limit adb_monkey passes to adb_shell (sdk.py 449)
BurstRetryLimit == 0

\* what one adb_call_timeout call can return: (True, output), (True, None)
\* or (False, None)
CallOutcomes == {"OK", "ERROR", "TIMEOUT"}

\* the success flag adb_call_timeout returns (sdk.py 96, 105)
CallSuccess(o) == o # "TIMEOUT"

MutRetryAgain(ok, limit) == ~ok /\ limit >= 0

\* the condition of adb_shell's while loop (sdk.py 121)
RetryAgain(ok, limit) == ~ok /\ limit > 0

\* adb_shell (sdk.py 118-125) after the calls of adb_call_timeout that
\* returned made, with retry_limit = limit: the sequences of returns it
\* can end with
RECURSIVE ShellRunsFrom(_, _)
ShellRunsFrom(made, limit) ==
    IF RetryAgain(CallSuccess(made[Len(made)]), limit)
      THEN UNION {ShellRunsFrom(Append(made, o), limit - 1) :
                     o \in CallOutcomes}
      ELSE {made}

\* what the calls of one adb_shell(..., retry_limit=limit) can return
ShellRuns(limit) == UNION {ShellRunsFrom(<<o>>, limit) : o \in CallOutcomes}

\* the screenshot file of lines 98 and 108: '...-start-%d.png', '...-run-%d.png'
ScreenFile(l, n) == [loop |-> l, n |-> n]

FuzzInit ==
    /\ ExecIdle /\ UninstIdle /\ CompIdle /\ RunIdle /\ ChargeIdle /\ BootIdle
    /\ SetupIdle /\ ScreenIdle
    /\ fpc = "start_app"
    /\ floop = "start"
    /\ fnow = 0
    /\ fend = 0
    /\ deadlines = <<>>
    /\ screen_count = 0
    /\ shots = <<>>
    /\ iterAt = 0
    /\ iterLog = <<>>
    /\ fexc = "none"

\* monkey.py 93-95
fuzz_start_app ==
    /\ fpc = "start_app"
    /\ fend' = fnow + InitialLimit
    /\ deadlines' = Append(deadlines, [loop |-> "start", at |-> fnow,
                                       end |-> fend'])
    /\ screen_count' = 0
    /\ fpc' = "loop"
    /\ UNCHANGED <<floop, fnow, shots, iterAt, iterLog, fexc, notFuzz>>

\* monkey.py 96 true, 97-99 up to the call of adb_screenshot
initial_iteration ==
    /\ fpc = "loop" /\ floop = "start"
    /\ fnow < fend
    /\ iterAt' = fnow
    /\ iterLog' = <<>>
    /\ screen_count' = screen_count + 1
    /\ shots' = Append(shots, ScreenFile("start", screen_count'))
    /\ fpc' = "screencap"
    /\ UNCHANGED <<floop, fnow, fend, deadlines, fexc, notFuzz>>

\* monkey.py 96 false, 102-103
fuzz_entry ==
    /\ fpc = "loop" /\ floop = "start"
    /\ ~(fnow < fend)
    /\ floop' = "run"
    /\ fend' = fnow + FuzzLimit
    /\ deadlines' = Append(deadlines, [loop |-> "run", at |-> fnow,
                                       end |-> fend'])
    /\ screen_count' = 0
    /\ iterLog' = <<>>
    /\ UNCHANGED <<fpc, fnow, shots, iterAt, fexc, notFuzz>>

\* monkey.py 104 true
fuzz_iteration ==
    /\ fpc = "loop" /\ floop = "run"
    /\ fnow < fend
    /\ iterAt' = fnow
    /\ iterLog' = <<>>
    /\ fpc' = "lumen_check"
    /\ UNCHANGED <<floop, fnow, fend, deadlines, screen_count, shots, fexc,
                   notFuzz>>

\* monkey.py 104 false
fuzz_done ==
    /\ fpc = "loop" /\ floop = "run"
    /\ ~(fnow < fend)
    /\ fpc' = "teardown"
    /\ UNCHANGED <<floop, fnow, fend, deadlines, screen_count, shots, iterAt,
                   iterLog, fexc, notFuzz>>

\* monkey.py 105: adb_lumen_check (sdk.py 420-428) on a device that answers
fuzz_lumen_check ==
    /\ fpc = "lumen_check"
    /\ iterLog' = Append(iterLog, [cmd |-> "lumen_check", outcome |-> "OK",
                                   calls |-> 1])
    /\ \E b \in BootProbeOutcomes \ {"sleep"}, o \in TunOutcomes,
          q \in ShellOutcomes :
          LET e == IF b # "booted" THEN b ELSE TunCheckEffect(o, q)
          IN  IF e = "ok"
                THEN /\ fpc' = "monkey"
                     /\ UNCHANGED fexc
                ELSE /\ fexc' = e
                     /\ fpc' = "raised"
    /\ UNCHANGED <<floop, fnow, fend, deadlines, screen_count, shots, iterAt,
                   notFuzz>>

\* monkey.py 106-108: adb_monkey (sdk.py 430-449) drops what adb_shell
\* returns
fuzz_monkey ==
    /\ fpc = "monkey"
    /\ screen_count' = screen_count + 1
    /\ \E run \in ShellRuns(BurstRetryLimit) :
          iterLog' = Append(iterLog, [cmd |-> "monkey",
                                      outcome |-> run[Len(run)],
                                      calls |-> Len(run)])
    /\ \E d \in 1..2 : fnow' = fnow + d
    /\ shots' = Append(shots, ScreenFile("run", screen_count'))
    /\ fpc' = "screencap"
    /\ UNCHANGED <<floop, fend, deadlines, iterAt, fexc, notFuzz>>

\* sdk.py 408-412: adb_shell('screencap -p ...') and the test of success
adb_screenshot_capture ==
    /\ fpc = "screencap"
    /\ \E o \in CallOutcomes :
          /\ iterLog' = Append(iterLog, [cmd |-> "screencap", outcome |-> o,
                                         calls |-> 1])
          /\ fpc' = IF CallSuccess(o) THEN "pull" ELSE "loop"
    /\ IF floop = "start"
         THEN \E d \in 1..2 : fnow' = fnow + d
         ELSE UNCHANGED fnow
    /\ UNCHANGED <<floop, fend, deadlines, screen_count, shots, iterAt, fexc,
                   notFuzz>>

\* sdk.py 413
adb_screenshot_pull ==
    /\ fpc = "pull"
    /\ \E o \in CallOutcomes :
          iterLog' = Append(iterLog, [cmd |-> "pull", outcome |-> o,
                                      calls |-> 1])
    /\ fpc' = "rm"
    /\ UNCHANGED <<floop, fnow, fend, deadlines, screen_count, shots, iterAt,
                   fexc, notFuzz>>

\* sdk.py 414
adb_screenshot_rm ==
    /\ fpc = "rm"
    /\ \E o \in CallOutcomes :
          iterLog' = Append(iterLog, [cmd |-> "rm", outcome |-> o,
                                      calls |-> 1])
    /\ fpc' = "loop"
    /\ UNCHANGED <<floop, fnow, fend, deadlines, screen_count, shots, iterAt,
                   fexc, notFuzz>>

FuzzNext ==
    \/ fuzz_start_app
    \/ initial_iteration
    \/ fuzz_entry
    \/ fuzz_iteration
    \/ fuzz_done
    \/ fuzz_lumen_check
    \/ fuzz_monkey
    \/ adb_screenshot_capture
    \/ adb_screenshot_pull
    \/ adb_screenshot_rm

FuzzSpec == FuzzInit /\ [][FuzzNext]_vars

\* the positions of the running iteration's log that hold command c
Issued(c) == {i \in 1..Len(iterLog) : iterLog[i].cmd = c}

\* the running adb_screenshot call has returned
ScreenshotReturned == fpc = "loop" /\ Issued("screencap") # {}

\* C22: a capture command that failed is followed by no pull and no delete
\* and by no exception; a capture that succeeded is followed by the pull and
\* then the delete, whatever the pull returned.
C22_ScreenshotNoOpOnCaptureFailure ==
    /\ \A i \in Issued("screencap") :
          IF iterLog[i].outcome # "OK"
            THEN Issued("pull") = {} /\ Issued("rm") = {}
            ELSE /\ \A j \in Issued("pull") : j = i + 1
                 /\ \A j \in Issued("rm") : j = i + 2
                 /\ ScreenshotReturned =>
                       Issued("pull") # {} /\ Issued("rm") # {}
    /\ Issued("screencap") # {} => fexc = "none"

\* the names of what the running iteration called or issued, in order
IterCmds == [i \in 1..Len(iterLog) |-> iterLog[i].cmd]

IsPrefix(a, b) == Len(a) <= Len(b) /\ a = SubSeq(b, 1, Len(a))

FuzzOrder == <<"lumen_check", "monkey", "screencap", "pull", "rm">>

\* how many of the first i screenshot files belong to the loop of the i-th
NthOfLoop(i) == Cardinality({j \in 1..i : shots[j].loop = shots[i].loop})

RunDeadlines == {i \in 1..Len(deadlines) : deadlines[i].loop = "run"}

\* C23: an iteration of the FUZZ loop calls the tunnel check, then the burst
\* command, attempted exactly once, then the screenshot; the screenshot
\* files of either loop are numbered 1, 2, 3, ... on their own; end_time is
\* assigned once when the FUZZ loop is entered, and every iteration began
\* with the clock before it.
C23_FuzzIteration ==
    /\ floop = "run" =>
          /\ IsPrefix(IterCmds, FuzzOrder)
          /\ \A i \in Issued("monkey") : iterLog[i].calls = 1
          /\ (fpc = "loop" /\ iterLog # <<>>) =>
                IsPrefix(SubSeq(FuzzOrder, 1, 3), IterCmds)
          /\ Cardinality(RunDeadlines) = 1
          /\ \A i \in RunDeadlines :
                /\ deadlines[i].end = deadlines[i].at + FuzzLimit
                /\ fend = deadlines[i].end
          /\ iterLog # <<>> => iterAt < fend
    /\ \A i \in 1..Len(shots) : shots[i].n = NthOfLoop(i)
    /\ floop = "run" =>
          screen_count = Cardinality({i \in 1..Len(shots) :
                                         shots[i].loop = "run"})

C23_Witness ==
    /\ floop = "run" /\ fpc = "loop"
    /\ screen_count = 2
    /\ shots = <<ScreenFile("start", 1), ScreenFile("start", 2),
                 ScreenFile("run", 1), ScreenFile("run", 2)>>
    /\ IterCmds = FuzzOrder
    /\ iterAt = fend - 1

\* C24: a burst command that timed out or exited with an error leaves an
\* exception propagating out of adb_monkey.
C24_FuzzFailurePropagates ==
    \A i \in Issued("monkey") : iterLog[i].outcome # "OK" => fexc # "none"

=============================================================================
